---- MODULE Spec2Model ----
(***************************************************************************)
(* Memory orchestration of MemoryCacheAI: MemoryService.SaveMemory and     *)
(* MemoryService.QueryMemory over the session store (RedisClient), the     *)
(* embedding provider and the vector store (VectorClient).                 *)
(*                                                                         *)
(* A Save is a sequence of remote calls (GET, SETEX, SADD, EXPIRE, EMBED,  *)
(* UPSERT); every call is one atomic step on the remote store, calls of    *)
(* concurrent requests interleave freely, and every call may fail.  A call *)
(* that reports an error has not been applied by the remote store.         *)
(*                                                                         *)
(* The session requests (GetSession, GetUserSessions, DeleteSession,       *)
(* SetSessionContext) and the cleanup tasks of the webhook are whole        *)
(* handlers: one step each, issued one after the other, with the outcome    *)
(* of every remote call as an input.  Time passes between requests and the  *)
(* session store drops the keys whose expiration has been reached.          *)
(*                                                                         *)
(* A cleanup task served on its own does not follow the cached dimensions  *)
(* of the vector client: the value only sets the length of the placeholder *)
(* query vector, and a failure to obtain it is replaced by the configured  *)
(* dimensions.  The cache is followed where cleanup requests overlap.      *)
(*                                                                         *)
(* Strings that are formatted into a filter expression are sequences of    *)
(* tokens, so that formatting and the store's reading of the filter are    *)
(* two different functions.  Scores are in tenths (5 stands for 0.5).      *)
(***************************************************************************)
EXTENDS Integers, Sequences, FiniteSets, TLC

\* ---------------------------------------------------------------- bounds
\* number of Save requests (each Saver issues one SaveMemory call)
NumSavers == 2

MaxTicks == 2

Savers == 1..NumSavers

\* ---------------------------------------------------------------- inputs
Alice == <<"alice">>
Bob == <<"bob">>
\* a caller-supplied user id that contains filter syntax
Mallory == <<"alice", "'", "OR", "user_id", "=", "'", "bob">>

SaveRequests ==
  { [UserID |-> Alice, SessionID |-> "s1", Content |-> "c1", Role |-> "user"],
    [UserID |-> Alice, SessionID |-> "s1", Content |-> "c2", Role |-> "assistant"],
    [UserID |-> Bob,   SessionID |-> "s1", Content |-> "c1", Role |-> "user"],
    [UserID |-> Bob,   SessionID |-> "s2", Content |-> "c2", Role |-> "assistant"] }

\* what a client may post to /memory/save: a field that is missing or empty
\* is the empty string after binding
SaveInputs ==
  SaveRequests \cup
  { [UserID |-> Bob,   SessionID |-> "s2", Content |-> "c1", Role |-> "system"],
    [UserID |-> <<>>,  SessionID |-> "s1", Content |-> "c1", Role |-> "user"],
    [UserID |-> Alice, SessionID |-> "",   Content |-> "c1", Role |-> "user"],
    [UserID |-> Alice, SessionID |-> "s1", Content |-> "",   Role |-> "user"],
    [UserID |-> Alice, SessionID |-> "s1", Content |-> "c1", Role |-> ""] }

SessionIDs == {"s1", "s2"}
UserIDs == {Alice, Bob, Mallory}
Limits == {0, 1, 2}
MinScores == {-1, 0, 6}
\* similarity scores the vector store may report
Scores == {3, 5, 8}

QueryRequests ==
  [UserID : UserIDs, Query : {"q1"}, Limit : Limits, MinScore : MinScores]

\* what a client may post to /memory/query
QueryInputs ==
  QueryRequests \cup
  { [UserID |-> <<>>,  Query |-> "q1", Limit |-> 0, MinScore |-> 0],
    [UserID |-> Alice, Query |-> "",   Limit |-> 0, MinScore |-> 0] }

NoSession == [none |-> TRUE]
NoRequest == [none |-> TRUE]
NoQuery == [none |-> TRUE]
NoReply == [none |-> TRUE]
NoTask == [none |-> TRUE]
\* a cleanup request that has not arrived
Idle == [at |-> "idle"]

\* SaveSession line 311: SETEX session:<id> 86400
SessionTTL == 86400
\* SaveSession line 328: EXPIRE user_sessions:<user> 86400
UserSessionsTTL == 86400
\* a key of the session store that has no expiration
NoExpiry == -1

VARIABLES
  sessions,      \* session store: key "session:<id>" -> SessionData
  userSessions,  \* session store: key "user_sessions:<user>" -> set of ids
  vectors,       \* vector store: set of [id, metadata]
  pc,            \* position of each SaveMemory call
  req,           \* SaveMemoryRequest of each SaveMemory call
  session,       \* local variable `session` of each SaveMemory call
  log,           \* adapter calls each SaveMemory call has made, in order
  lastQuery,     \* the QueryMemory call being answered
  expiry,        \* session store: time at which "session:<id>" expires
  usExpiry,      \* session store: time at which "user_sessions:<user>" expires
  now,           \* the clock (seconds)
  ticks,         \* number of times the clock has advanced
  reply,         \* the session or cleanup request being answered
  embedder,      \* configuration: the embedding provider and its model
  outbox,        \* task queue: the published cleanup task awaiting delivery
  dimensions,    \* VectorClient.dimensions (cache) as overlapping cleanup
                 \* requests read and write it
  sweeps         \* position and locals of each overlapping cleanup request

vars == <<sessions, userSessions, vectors, pc, req, session, log, lastQuery,
          expiry, usExpiry, now, ticks, reply, embedder, outbox,
          dimensions, sweeps>>

\* what a Save or Query step leaves alone
clock == <<now, ticks, reply, embedder, outbox, dimensions, sweeps>>

\* ------------------------------------------------------------- helpers
Last(s) == s[Len(s)]

Call(op, ok) == [op |-> op, ok |-> ok]

\* messageID := uuid.New().String(): unique per SaveMemory call
NewUUID(p) == ToString(p)

\* mutant: the Message gets an identifier of its own
NewMessage_OwnID(p, r) ==
  [ID |-> ToString(p + NumSavers), Role |-> r.Role, Content |-> r.Content]

NewMessage(p, r) == [ID |-> NewUUID(p), Role |-> r.Role, Content |-> r.Content]

NewSessionData(r) ==
  [UserID |-> r.UserID, SessionID |-> r.SessionID, Messages |-> <<>>,
   Context |-> <<>>, LastActivity |-> now, CreatedAt |-> now]

\* RedisClient.GetSession as SaveMemory sees it: err is any failure of the
\* call (upstream error or "session not found")
GetSessionErr(sid, upstream) == upstream \/ sessions[sid] = NoSession

\* LoadConfig: EMBEDDING_PROVIDER and OPENAI_EMBEDDING_MODEL with their
\* defaults
DefaultEmbedder == [provider |-> "jina", model |-> "text-embedding-3-small"]

\* the configurations the service may be started with; the last model is
\* one that OpenAIClient.GetDimensions does not list
EmbedderConfigs ==
  [provider : {"jina", "openai"},
   model : {"text-embedding-3-small", "text-embedding-3-large",
            "text-embedding-ada-002", "text-search-ada-doc-001"}]

\* JinaClient.GetDimensions and OpenAIClient.GetDimensions
GetDimensions(e) ==
  IF e.provider = "jina" THEN 1024
  ELSE CASE e.model = "text-embedding-3-small" -> 1536
         [] e.model = "text-embedding-3-large" -> 3072
         [] e.model = "text-embedding-ada-002" -> 1536
         [] OTHER -> 1536

\* GenerateEmbeddings returns response.Data[0].Embedding as the provider
\* sent it: the length of the vector is the one of the model that was asked
GenerateEmbedding(e) ==
  IF e.provider = "jina" THEN 1024
  ELSE CASE e.model = "text-embedding-3-small" -> 1536
         [] e.model = "text-embedding-3-large" -> 3072
         [] e.model = "text-embedding-ada-002" -> 1536
         [] e.model = "text-search-ada-doc-001" -> 1024

InitStores ==
  /\ sessions = [s \in SessionIDs |-> NoSession]
  /\ userSessions = [u \in UserIDs |-> {}]
  /\ vectors = {}
  /\ pc = [p \in Savers |-> "idle"]
  /\ req = [p \in Savers |-> NoRequest]
  /\ session = [p \in Savers |-> NoSession]
  /\ log = [p \in Savers |-> <<>>]
  /\ lastQuery = NoQuery
  /\ expiry = [s \in SessionIDs |-> NoExpiry]
  /\ usExpiry = [u \in UserIDs |-> NoExpiry]
  /\ now = 0
  /\ ticks = 0
  /\ reply = NoReply
  /\ outbox = NoTask
  /\ dimensions = 0
  /\ sweeps = [p \in Savers |-> Idle]

\* the service as started with the default configuration
Init ==
  /\ InitStores
  /\ embedder = DefaultEmbedder

\* the session store's commands, as SaveSession issues them for a record
SETEX_sessions_Append(rec) ==
  [sessions EXCEPT ![rec.SessionID] =
     IF @ = NoSession THEN rec
     ELSE [rec EXCEPT !.Messages = sessions[rec.SessionID].Messages
                                     \o <<rec.Messages[Len(rec.Messages)]>>]]

SETEX_sessions(rec) == [sessions EXCEPT ![rec.SessionID] = rec]

SETEX_expiry_Keep(rec) ==
  [expiry EXCEPT ![rec.SessionID] = IF @ = NoExpiry THEN now + SessionTTL ELSE @]

SETEX_expiry(rec) == [expiry EXCEPT ![rec.SessionID] = now + SessionTTL]

SADD_userSessions(rec) ==
  [userSessions EXCEPT ![rec.UserID] = @ \cup {rec.SessionID}]

EXPIRE_usExpiry(rec) == [usExpiry EXCEPT ![rec.UserID] = now + UserSessionsTTL]

ValidSave_EmptyContent(r) ==
  /\ r.UserID # <<>>
  /\ r.SessionID # ""
  /\ r.Role # ""

\* SaveMemoryRequest, binding:"required" on its four fields
ValidSave(r) ==
  /\ r.UserID # <<>>
  /\ r.SessionID # ""
  /\ r.Content # ""
  /\ r.Role # ""

\* QueryMemoryRequest, binding:"required" on user_id and query
ValidQuery(q) ==
  /\ q.UserID # <<>>
  /\ q.Query # ""

\* SaveMemory up to and including the session read and the append; the
\* calls are numbered in the order in which they arrive.  The handler has
\* bound the request before it calls the service.
SaveBegin(p) ==
  /\ pc[p] = "idle"
  /\ \A q \in Savers : q < p => pc[q] # "idle"
  /\ \E r \in SaveInputs, upstream \in BOOLEAN :
       LET err == GetSessionErr(r.SessionID, upstream)
           s0 == IF err THEN NewSessionData(r) ELSE sessions[r.SessionID]
       IN /\ ValidSave(r)
          /\ req' = [req EXCEPT ![p] = r]
          /\ session' = [session EXCEPT ![p] =
                 [s0 EXCEPT !.Messages = Append(s0.Messages, NewMessage(p, r)),
                            !.LastActivity = now]]
          /\ log' = [log EXCEPT ![p] = Append(@, Call("GET", ~err))]
  /\ pc' = [pc EXCEPT ![p] = "setex"]
  /\ UNCHANGED <<sessions, userSessions, vectors, lastQuery, expiry, usExpiry, clock>>

\* mutant: the error of SaveSession is ignored
AfterSaveSession_Ignored(err) == "embed"

\* SaveMemory lines 61-63: an error of SaveSession ends the call
AfterSaveSession(err) == IF err THEN "failed" ELSE "embed"

\* SaveSession, first command: SETEX session:<id> 86400 <json>
SaveSETEX(p) ==
  /\ pc[p] = "setex"
  /\ \E ok \in BOOLEAN :
       /\ log' = [log EXCEPT ![p] = Append(@, Call("SETEX", ok))]
       /\ IF ok
            THEN /\ sessions' = SETEX_sessions(session[p])
                 /\ expiry' = SETEX_expiry(session[p])
                 /\ pc' = [pc EXCEPT ![p] = "sadd"]
            ELSE /\ UNCHANGED <<sessions, expiry>>
                 /\ pc' = [pc EXCEPT ![p] = AfterSaveSession(TRUE)]
  /\ UNCHANGED <<userSessions, vectors, req, session, lastQuery, usExpiry, clock>>

\* SaveSession, second command: SADD user_sessions:<user> <id>
SaveSADD(p) ==
  /\ pc[p] = "sadd"
  /\ \E ok \in BOOLEAN :
       /\ log' = [log EXCEPT ![p] = Append(@, Call("SADD", ok))]
       /\ IF ok
            THEN /\ userSessions' = SADD_userSessions(session[p])
                 /\ pc' = [pc EXCEPT ![p] = "expire"]
            ELSE /\ userSessions' = userSessions
                 /\ pc' = [pc EXCEPT ![p] = AfterSaveSession(TRUE)]
  /\ UNCHANGED <<sessions, vectors, req, session, lastQuery, expiry, usExpiry, clock>>

\* SaveSession, third command: EXPIRE user_sessions:<user> 86400; its error
\* is the error of SaveSession
SaveEXPIRE(p) ==
  /\ pc[p] = "expire"
  /\ \E ok \in BOOLEAN :
       /\ log' = [log EXCEPT ![p] = Append(@, Call("EXPIRE", ok))]
       /\ pc' = [pc EXCEPT ![p] = AfterSaveSession(~ok)]
       /\ usExpiry' = IF ok THEN EXPIRE_usExpiry(session[p]) ELSE usExpiry
  /\ UNCHANGED <<sessions, userSessions, vectors, req, session, lastQuery, expiry, clock>>

\* mutant: a failed embedding removes the session record again
SaveEmbedding_Rollback(p) ==
  /\ pc[p] = "embed"
  /\ \E ok \in BOOLEAN :
       /\ log' = [log EXCEPT ![p] = Append(@, Call("EMBED", ok))]
       /\ pc' = [pc EXCEPT ![p] = IF ok THEN "upsert" ELSE "failed"]
       /\ sessions' = IF ok THEN sessions
                      ELSE [sessions EXCEPT ![session[p].SessionID] = NoSession]
  /\ UNCHANGED <<userSessions, vectors, req, session, lastQuery, expiry, usExpiry, clock>>

\* SaveMemory lines 65-69: GenerateEmbedding(req.Content)
SaveEmbedding(p) ==
  /\ pc[p] = "embed"
  /\ \E ok \in BOOLEAN :
       /\ log' = [log EXCEPT ![p] = Append(@, Call("EMBED", ok))]
       /\ pc' = [pc EXCEPT ![p] = IF ok THEN "upsert" ELSE "failed"]
  /\ UNCHANGED <<sessions, userSessions, vectors, req, session, lastQuery, expiry, usExpiry, clock>>

\* mutant: the retention window of the session store
MemoryTTL_Day == 24 * 60 * 60

\* 30 days TTL
MemoryTTL == 30 * 24 * 60 * 60

\* SaveMemory lines 71-83
NewMemoryEntry(p) ==
  [ID |-> NewUUID(p), UserID |-> req[p].UserID, Content |-> req[p].Content,
   Embedding |-> GenerateEmbedding(embedder),
   Metadata |-> [session_id |-> req[p].SessionID, role |-> req[p].Role],
   Timestamp |-> session[p].LastActivity, TTL |-> MemoryTTL]

\* UpsertMemory lines 99-109: the custom metadata overwrites the base keys
UpsertMetadata(memory) ==
  memory.Metadata @@
    [user_id |-> memory.UserID, content |-> memory.Content,
     timestamp |-> memory.Timestamp, ttl |-> memory.TTL]

UpsertRequest(memory) ==
  [id |-> memory.ID, vector |-> memory.Embedding,
   metadata |-> UpsertMetadata(memory)]

\* the vector store's UPSERT: the entry replaces any entry of the same id
Upsert(store, request) == {e \in store : e.id # request.id} \cup {request}

\* SaveMemory lines 85-90: UpsertMemory(memoryEntry)
SaveUpsert(p) ==
  /\ pc[p] = "upsert"
  /\ \E ok \in BOOLEAN :
       /\ log' = [log EXCEPT ![p] = Append(@, Call("UPSERT", ok))]
       /\ IF ok
            THEN /\ vectors' = Upsert(vectors, UpsertRequest(NewMemoryEntry(p)))
                 /\ pc' = [pc EXCEPT ![p] = "done"]
            ELSE /\ vectors' = vectors
                 /\ pc' = [pc EXCEPT ![p] = "failed"]
  /\ UNCHANGED <<sessions, userSessions, req, session, lastQuery, expiry, usExpiry, clock>>

\* ------------------------------------------------------------- Query
\* QueryMemory lines 104-108
DefaultLimit == 10

\* mutant: the default of GetRecentMemories
EffectiveLimit_Twenty(limit) == IF limit <= 0 THEN 20 ELSE limit

EffectiveLimit(limit) == IF limit <= 0 THEN DefaultLimit ELSE limit

\* QueryMemory lines 110-113 (0.5)
DefaultMinScore == 5

\* mutant: a requested minimum of zero is kept
EffectiveMinScore_Strict(minScore) == IF minScore < 0 THEN DefaultMinScore ELSE minScore

EffectiveMinScore(minScore) == IF minScore <= 0 THEN DefaultMinScore ELSE minScore

\* QueryMemories lines 126-128
TopK(limit) == IF limit <= 0 THEN DefaultLimit ELSE limit

\* QueryMemories line 135: fmt.Sprintf("user_id = '%s'", userID)
FormatFilter(userID) == <<"user_id", "=", "'">> \o userID \o <<"'">>

\* The vector store's reading of a filter expression: equality clauses on
\* user_id joined by OR; a string literal ends at the next quote.
Malformed == [ok |-> FALSE, owners |-> {}]

IsClause(t) ==
  /\ Len(t) = 5
  /\ t[1] = "user_id" /\ t[2] = "=" /\ t[3] = "'" /\ t[4] # "'" /\ t[5] = "'"

RECURSIVE ParseFilter(_)
ParseFilter(t) ==
  IF Len(t) = 5
    THEN IF IsClause(t) THEN [ok |-> TRUE, owners |-> {<<t[4]>>}] ELSE Malformed
    ELSE IF Len(t) > 6 /\ IsClause(SubSeq(t, 1, 5)) /\ t[6] = "OR"
      THEN LET rest == ParseFilter(SubSeq(t, 7, Len(t)))
           IN IF rest.ok
                THEN [ok |-> TRUE, owners |-> {<<t[4]>>} \cup rest.owners]
                ELSE Malformed
      ELSE Malformed

Min(a, b) == IF a < b THEN a ELSE b

\* The vector store's QUERY: the topK nearest entries that satisfy the
\* filter, each once, ranked by descending score; the scores are the store's
QueryResponses(store, filter, topK) ==
  LET owners == ParseFilter(filter).owners
      matching == {e \in store : e.metadata.user_id \in owners}
      n == Min(topK, Cardinality(matching))
  IN { [i \in 1..n |-> [ID |-> es[i].id, Score |-> sc[i], Metadata |-> es[i].metadata]] :
         <<es, sc>> \in
           { x \in [1..n -> matching] \X [1..n -> Scores] :
               /\ \A i, j \in 1..n : i # j => x[1][i] # x[1][j]
               /\ \A i, j \in 1..n : i < j => x[2][i] >= x[2][j] } }

\* QueryMemories lines 159-178: one MemoryResult from one match
ToResult(match) ==
  [ID |-> "", Content |-> match.Metadata.content, Score |-> match.Score,
   Metadata |-> [id |-> match.ID] @@ match.Metadata]

\* mutant: a surviving match is put in front of the results
RECURSIVE QueryLoop_Prepend(_, _, _, _)
QueryLoop_Prepend(result, i, minScore, results) ==
  IF i > Len(result) THEN results
  ELSE IF result[i].Score < minScore
    THEN QueryLoop_Prepend(result, i + 1, minScore, results)
    ELSE QueryLoop_Prepend(result, i + 1, minScore, <<ToResult(result[i])>> \o results)

\* QueryMemories lines 151-182: the loop over response.Result
RECURSIVE QueryLoop(_, _, _, _)
QueryLoop(result, i, minScore, results) ==
  IF i > Len(result) THEN results
  ELSE IF result[i].Score < minScore
    THEN QueryLoop(result, i + 1, minScore, results)
    ELSE QueryLoop(result, i + 1, minScore, Append(results, ToResult(result[i])))

QueryFailure(q, err, calls, limit, minScore) ==
  [req |-> q, err |-> err, calls |-> calls, topK |-> limit,
   minScore |-> minScore, response |-> <<>>, results |-> <<>>, total |-> 0]

\* mutant: a failed store query is answered as an empty result
QueryMemoryResult_Swallow(q, embedOk, queryOk, response) ==
  LET limit == EffectiveLimit(q.Limit)
      minScore == EffectiveMinScore(q.MinScore)
      topK == TopK(limit)
      results == QueryLoop(response, 1, minScore, <<>>)
  IN IF ~embedOk
       THEN QueryFailure(q, "embedding", <<Call("EMBED", FALSE)>>, 0, 0)
       ELSE [req |-> q, err |-> "none",
             calls |-> <<Call("EMBED", TRUE), Call("QUERY", queryOk)>>,
             topK |-> topK, minScore |-> minScore, response |-> response,
             results |-> results, total |-> Len(results)]

\* QueryMemory lines 97-128 with QueryMemories lines 139-148: what the call
\* returns, given the outcome of the embedding request and of the store query
QueryMemoryResult(q, embedOk, queryOk, response) ==
  LET limit == EffectiveLimit(q.Limit)
      minScore == EffectiveMinScore(q.MinScore)
      topK == TopK(limit)
      results == QueryLoop(response, 1, minScore, <<>>)
  IN IF ~embedOk
       THEN QueryFailure(q, "embedding", <<Call("EMBED", FALSE)>>, 0, 0)
       ELSE IF ~queryOk
         THEN QueryFailure(q, "query",
                           <<Call("EMBED", TRUE), Call("QUERY", FALSE)>>,
                           topK, minScore)
         ELSE [req |-> q, err |-> "none",
               calls |-> <<Call("EMBED", TRUE), Call("QUERY", TRUE)>>,
               topK |-> topK, minScore |-> minScore, response |-> response,
               results |-> results, total |-> Len(results)]

\* MemoryService.QueryMemory with VectorClient.QueryMemories; the store
\* rejects a filter it cannot read
QueryMemory ==
  /\ lastQuery = NoQuery
  /\ \E q \in QueryInputs, embedOk \in BOOLEAN, queryOk \in BOOLEAN :
       LET filter == FormatFilter(q.UserID)
           topK == TopK(EffectiveLimit(q.Limit))
       IN \/ /\ ValidQuery(q)
             /\ ~(embedOk /\ queryOk)
             /\ lastQuery' = QueryMemoryResult(q, embedOk, queryOk, <<>>)
          \/ /\ ValidQuery(q)
             /\ embedOk /\ queryOk
             /\ ParseFilter(filter).ok
             /\ \E response \in QueryResponses(vectors, filter, topK) :
                  lastQuery' = QueryMemoryResult(q, TRUE, TRUE, response)
  /\ UNCHANGED <<sessions, userSessions, vectors, pc, req, session, log, expiry, usExpiry, clock>>

\* the response has been handed to the caller
QueryReturn ==
  /\ lastQuery # NoQuery
  /\ lastQuery' = NoQuery
  /\ UNCHANGED <<sessions, userSessions, vectors, pc, req, session, log, expiry, usExpiry, clock>>

SaveStep(p) ==
  \/ SaveBegin(p)
  \/ SaveSETEX(p)
  \/ SaveSADD(p)
  \/ SaveEXPIRE(p)
  \/ SaveEmbedding(p)
  \/ SaveUpsert(p)

\* Concurrent SaveMemory calls
Next == \E p \in Savers : SaveStep(p)

Spec == Init /\ [][Next]_vars

\* SaveMemory and QueryMemory calls issued one after the other
InProgress(p) == pc[p] \notin {"idle", "done", "failed"}

SaveInTurn(p) ==
  /\ \A q \in Savers \ {p} : ~InProgress(q)
  /\ lastQuery = NoQuery
  /\ SaveStep(p)

QueryInTurn ==
  /\ \A p \in Savers : ~InProgress(p)
  /\ QueryMemory

NextQuery ==
  \/ \E p \in Savers : SaveInTurn(p)
  \/ QueryInTurn
  \/ QueryReturn

SpecQuery == Init /\ [][NextQuery]_vars

\* ------------------------------------------------------------ sessions
\* HTTP status codes of the handlers
StatusOK == 200

StatusBadRequest == 400

StatusNotFound == 404

StatusInternalServerError == 500

ContextMaps == {"k1" :> "v1", "k1" :> "v2", "k2" :> "v1"}

TickSizes == {60 * 60, SessionTTL}

stores == <<sessions, userSessions, vectors, expiry, usExpiry>>

saves == <<pc, req, session, log, lastQuery, embedder, outbox, dimensions,
          sweeps>>

\* no request is being served
Quiet ==
  /\ \A p \in Savers : ~InProgress(p)
  /\ lastQuery = NoQuery
  /\ reply = NoReply

\* RedisClient.SaveSession, of which the first n commands succeed
SaveSession(rec, n) ==
  /\ sessions' = IF n >= 1 THEN SETEX_sessions(rec) ELSE sessions
  /\ expiry' = IF n >= 1 THEN SETEX_expiry(rec) ELSE expiry
  /\ userSessions' = IF n >= 2 THEN SADD_userSessions(rec) ELSE userSessions
  /\ usExpiry' = IF n >= 3 THEN EXPIRE_usExpiry(rec) ELSE usExpiry

SaveSessionOutcomes == 0..3

SaveSessionErr(n) == n < 3

\* why a read of "session:<id>" returned an error
ReadError(sid, readOk) ==
  IF ~readOk THEN "upstream"
  ELSE IF sessions[sid] = NoSession THEN "missing" ELSE "none"

UpdateSessionActivity_Stale(sid, rereadOk, n) ==
  IF GetSessionErr(sid, ~rereadOk)
    THEN UNCHANGED <<sessions, userSessions, expiry, usExpiry>>
    ELSE SaveSession(sessions[sid], n)

\* RedisClient.UpdateSessionActivity
UpdateSessionActivity(sid, rereadOk, n) ==
  IF GetSessionErr(sid, ~rereadOk)
    THEN UNCHANGED <<sessions, userSessions, expiry, usExpiry>>
    ELSE SaveSession([sessions[sid] EXCEPT !.LastActivity = now], n)

\* MemoryHandler.GetSession over MemoryService.GetSession
GetSession ==
  \E sid \in SessionIDs, readOk \in BOOLEAN, rereadOk \in BOOLEAN,
     n \in SaveSessionOutcomes :
    /\ Quiet
    /\ IF GetSessionErr(sid, ~readOk)
         THEN /\ reply' = [op |-> "GetSession", id |-> sid,
                           cause |-> ReadError(sid, readOk),
                           status |-> StatusNotFound,
                           error |-> "Session not found",
                           body |-> NoSession, readOk |-> readOk,
                           rereadOk |-> FALSE, saved |-> 0]
              /\ UNCHANGED <<sessions, userSessions, expiry, usExpiry>>
         ELSE /\ UpdateSessionActivity(sid, rereadOk, n)
              /\ reply' = [op |-> "GetSession", id |-> sid, cause |-> "none",
                           status |-> StatusOK, error |-> "",
                           body |-> sessions[sid], readOk |-> readOk,
                           rereadOk |-> rereadOk,
                           saved |-> IF rereadOk THEN n ELSE 0]
    /\ UNCHANGED <<vectors, saves, now, ticks>>

\* MemoryHandler.GetUserSessions over RedisClient.GetUserSessions
GetUserSessions ==
  \E u \in UserIDs, ok \in BOOLEAN :
    /\ Quiet
    /\ reply' = IF ok
                  THEN [op |-> "GetUserSessions", id |-> u, status |-> StatusOK,
                        error |-> "", body |-> userSessions[u]]
                  ELSE [op |-> "GetUserSessions", id |-> u,
                        status |-> StatusInternalServerError,
                        error |-> "Failed to get user sessions", body |-> {}]
    /\ UNCHANGED <<stores, saves, now, ticks>>

\* MemoryService.DeleteSession: the error it returns
DeleteSessionErr(sid, deleteMemories, readOk, delOk) ==
  IF deleteMemories /\ GetSessionErr(sid, ~readOk) THEN "failed to get session"
  ELSE IF ~delOk THEN "failed to delete session from Redis"
  ELSE "none"

DEL_sessions_All(sid) == [s \in SessionIDs |-> NoSession]

\* RedisClient.DeleteSession: DEL session:<id>
DEL_sessions(sid) == [sessions EXCEPT ![sid] = NoSession]

DEL_expiry(sid) == [expiry EXCEPT ![sid] = NoExpiry]

\* MemoryHandler.DeleteSession over MemoryService.DeleteSession
DeleteSession ==
  \E sid \in SessionIDs, deleteMemories \in BOOLEAN, readOk \in BOOLEAN,
     delOk \in BOOLEAN :
    LET err == DeleteSessionErr(sid, deleteMemories, readOk, delOk) IN
    /\ Quiet
    /\ sessions' = IF err = "none" THEN DEL_sessions(sid) ELSE sessions
    /\ expiry' = IF err = "none" THEN DEL_expiry(sid) ELSE expiry
    /\ reply' = [op |-> "DeleteSession", id |-> sid,
                 deleteMemories |-> deleteMemories,
                 readOk |-> readOk, delOk |-> delOk,
                 status |-> IF err = "none" THEN StatusOK
                            ELSE StatusInternalServerError,
                 error |-> IF err = "none" THEN ""
                           ELSE "Failed to delete session"]
    /\ UNCHANGED <<userSessions, usExpiry, vectors, saves, now, ticks>>

MergeContext_Replace(rec, context) ==
  [rec EXCEPT !.Context = context, !.LastActivity = now]

\* RedisClient.SetSessionContext: the record it writes
MergeContext(rec, context) ==
  [rec EXCEPT !.Context = context @@ rec.Context, !.LastActivity = now]

RedisSetSessionContext_Create(sid, context, readOk, n) ==
  IF ~readOk
    THEN UNCHANGED <<sessions, userSessions, expiry, usExpiry>>
    ELSE SaveSession(MergeContext(IF sessions[sid] = NoSession
                                    THEN NewSessionData([UserID |-> Alice,
                                                         SessionID |-> sid])
                                    ELSE sessions[sid], context), n)

\* RedisClient.SetSessionContext: its commands on the session store
RedisSetSessionContext(sid, context, readOk, n) ==
  IF GetSessionErr(sid, ~readOk)
    THEN UNCHANGED <<sessions, userSessions, expiry, usExpiry>>
    ELSE SaveSession(MergeContext(sessions[sid], context), n)

\* MemoryHandler.SetSessionContext over RedisClient.SetSessionContext
SetSessionContext ==
  \E sid \in SessionIDs, context \in ContextMaps, readOk \in BOOLEAN,
     n \in SaveSessionOutcomes :
    LET readErr == GetSessionErr(sid, ~readOk) IN
    /\ Quiet
    /\ RedisSetSessionContext(sid, context, readOk, n)
    /\ reply' = [op |-> "SetSessionContext", id |-> sid, context |-> context,
                 cause |-> ReadError(sid, readOk),
                 before |-> sessions[sid],
                 status |-> IF readErr \/ SaveSessionErr(n)
                              THEN StatusInternalServerError ELSE StatusOK,
                 error |-> IF readErr \/ SaveSessionErr(n)
                             THEN "Failed to set session context" ELSE ""]
    /\ UNCHANGED <<vectors, saves, now, ticks>>

\* the response has been handed to the caller
Return ==
  /\ reply # NoReply
  /\ reply' = NoReply
  /\ UNCHANGED <<stores, saves, now, ticks>>

Expired(at) == at # NoExpiry /\ at <= now'

\* time passes between two requests; the session store drops expired keys
Advance(d) ==
    /\ Quiet
    /\ ticks < MaxTicks
    /\ now' = now + d
    /\ ticks' = ticks + 1
    /\ sessions' = [s \in SessionIDs |->
                      IF Expired(expiry[s]) THEN NoSession ELSE sessions[s]]
    /\ expiry' = [s \in SessionIDs |->
                    IF Expired(expiry[s]) THEN NoExpiry ELSE expiry[s]]
    /\ userSessions' = [u \in UserIDs |->
                          IF Expired(usExpiry[u]) THEN {} ELSE userSessions[u]]
    /\ usExpiry' = [u \in UserIDs |->
                      IF Expired(usExpiry[u]) THEN NoExpiry ELSE usExpiry[u]]
    /\ UNCHANGED <<vectors, saves, reply>>

Tick == \E d \in TickSizes : Advance(d)

SaveQuiet(p) ==
  /\ reply = NoReply
  /\ SaveInTurn(p)

\* the Saver that arrives first
FirstSaver == CHOOSE p \in Savers : \A q \in Savers : p <= q

\* a client that saves one memory and reads, lists, deletes and annotates
\* sessions, one request after the other, while time passes
NextSession ==
  \/ SaveQuiet(FirstSaver)
  \/ GetSession
  \/ GetUserSessions
  \/ DeleteSession
  \/ SetSessionContext
  \/ Return
  \/ Tick

SpecSession == Init /\ [][NextSession]_vars

\* ------------------------------------------------------------- cleanup
\* VectorClient.DeleteUserMemories: TopK of its query
UserPage == 1000

\* VectorClient.DeleteExpiredMemories: TopK of its query
SweepPage == 10000

AgeSizes == {1, MemoryTTL}

\* the entries a query with the given filter and TopK may return
Page(filter, topK) ==
  LET matching == IF filter = <<>> THEN vectors
                  ELSE {v \in vectors :
                          v.metadata.user_id \in ParseFilter(filter).owners}
  IN  {page \in SUBSET matching : Cardinality(page) = Min(topK, Cardinality(matching))}

\* the identifier a cleanup callback may carry in its user_id field
TaskOwners == UserIDs \cup {<<>>}

TaskSessions == SessionIDs \cup {""}

TaskTypes ==
  {"cleanup_expired_memories", "cleanup_user_memories", "cleanup_session"}

\* HandleCleanupWebhook: task.UserID == "" is refused
ValidOwnerTask(u) == u # <<>>

ValidSessionTask(sid) == sid # ""

\* failed: some call to the session store or the vector store reported an
\* error while the task ran
TaskReply(task, id, err, failed) ==
  [op |-> task, id |-> id, failed |-> failed,
   status |-> IF err THEN StatusInternalServerError ELSE StatusOK,
   error |-> IF err THEN "Failed to " \o task ELSE ""]

\* HandleCleanupWebhook, task "cleanup_user_memories", over
\* MemoryService.CleanupUserMemories and VectorClient.DeleteUserMemories.
\* deleted: the entries whose delete call succeeded (the loop stops at the
\* first failure); removed: the sessions whose DEL succeeded.
CleanupUserMemories ==
  \E u \in TaskOwners, queryOk \in BOOLEAN, listOk \in BOOLEAN :
    /\ Quiet
    /\ ValidOwnerTask(u)
    /\ \/ /\ ~(queryOk /\ ParseFilter(FormatFilter(u)).ok)
          /\ reply' = TaskReply("cleanup_user_memories", u, TRUE, TRUE)
          /\ UNCHANGED <<vectors, sessions, expiry>>
       \/ /\ queryOk /\ ParseFilter(FormatFilter(u)).ok
          /\ \E page \in Page(FormatFilter(u), UserPage) :
             \E deleted \in SUBSET page :
               /\ vectors' = vectors \ deleted
               /\ IF deleted # page \/ ~listOk
                    THEN /\ reply' = TaskReply("cleanup_user_memories", u, TRUE, TRUE)
                         /\ UNCHANGED <<sessions, expiry>>
                    ELSE \E removed \in SUBSET userSessions[u] :
                           /\ sessions' = [s \in SessionIDs |->
                                IF s \in removed THEN NoSession ELSE sessions[s]]
                           /\ expiry' = [s \in SessionIDs |->
                                IF s \in removed THEN NoExpiry ELSE expiry[s]]
                           /\ reply' = TaskReply("cleanup_user_memories", u, FALSE,
                                                  removed # userSessions[u])
    /\ UNCHANGED <<userSessions, usExpiry, saves, now, ticks>>

IsExpired_Inclusive(v) == now >= v.metadata.timestamp + v.metadata.ttl

\* VectorClient.DeleteExpiredMemories: the entry is past its time to live
IsExpired(v) == now > v.metadata.timestamp + v.metadata.ttl

\* HandleCleanupWebhook, task "cleanup_expired_memories", over
\* VectorClient.DeleteExpiredMemories.  deleted: the expired entries of the
\* page whose delete call succeeded.
CleanupExpiredMemories ==
  \E queryOk \in BOOLEAN :
    /\ Quiet
    /\ IF ~queryOk
         THEN /\ reply' = TaskReply("cleanup_expired_memories", "", TRUE, TRUE)
              /\ UNCHANGED vectors
         ELSE \E page \in Page(<<>>, SweepPage) :
              \E deleted \in SUBSET {v \in page : IsExpired(v)} :
                /\ vectors' = vectors \ deleted
                /\ reply' = TaskReply("cleanup_expired_memories", "", FALSE,
                                       deleted # {v \in page : IsExpired(v)})
    /\ UNCHANGED <<sessions, userSessions, expiry, usExpiry, saves, now, ticks>>

\* HandleCleanupWebhook, task "cleanup_session": the task's UserID field
\* carries the session id
CleanupSession ==
  \E sid \in TaskSessions, delOk \in BOOLEAN :
    LET err == DeleteSessionErr(sid, FALSE, TRUE, delOk) IN
    /\ Quiet
    /\ ValidSessionTask(sid)
    /\ sessions' = IF err = "none" THEN DEL_sessions(sid) ELSE sessions
    /\ expiry' = IF err = "none" THEN DEL_expiry(sid) ELSE expiry
    /\ reply' = TaskReply("cleanup_session", sid, err # "none", ~delOk)
    /\ UNCHANGED <<userSessions, usExpiry, vectors, saves, now, ticks>>

\* entries age between two requests
Age == \E d \in AgeSizes : Advance(d)

\* the Saver that arrives second
SecondSaver ==
  CHOOSE p \in Savers \ {FirstSaver} : \A q \in Savers \ {FirstSaver} : p <= q

\* a client that saves two memories and runs the cleanup tasks, one request
\* after the other, while time passes
NextCleanup ==
  \/ \E p \in {FirstSaver, SecondSaver} : SaveQuiet(p)
  \/ CleanupUserMemories
  \/ CleanupExpiredMemories
  \/ CleanupSession
  \/ Return
  \/ Age

SpecCleanup == Init /\ [][NextCleanup]_vars

\* ---------------------------------------------------------- validation
BadRequest(op, error, input) ==
  [op |-> op, status |-> StatusBadRequest, error |-> error, input |-> input]

\* MemoryHandler.SaveMemory: the request does not bind
RejectSave ==
  \E r \in SaveInputs :
    /\ Quiet
    /\ ~ValidSave(r)
    /\ reply' = BadRequest("SaveMemory", "Invalid request format", r)
    /\ UNCHANGED <<stores, saves, now, ticks>>

\* MemoryHandler.QueryMemory: the request does not bind
RejectQuery ==
  \E q \in QueryInputs :
    /\ Quiet
    /\ ~ValidQuery(q)
    /\ reply' = BadRequest("QueryMemory", "Invalid request format", q)
    /\ UNCHANGED <<stores, saves, now, ticks>>

\* HandleCleanupWebhook: a task without its identifier, or of unknown type
RejectTask ==
  /\ Quiet
  /\ \/ \E u \in TaskOwners :
          /\ ~ValidOwnerTask(u)
          /\ reply' = BadRequest("cleanup_user_memories",
                                 "User ID is required for user memory cleanup", u)
     \/ \E sid \in TaskSessions :
          /\ ~ValidSessionTask(sid)
          /\ reply' = BadRequest("cleanup_session",
                                 "Session ID is required for session cleanup", sid)
     \/ \E type \in {"cleanup_everything"} :
          /\ type \notin TaskTypes
          /\ reply' = BadRequest(type, "Unknown task type: " \o type, type)
  /\ UNCHANGED <<stores, saves, now, ticks>>

QueryQuiet ==
  /\ reply = NoReply
  /\ QueryInTurn

\* a client whose requests may be malformed: one request after the other
NextValidation ==
  \/ SaveQuiet(FirstSaver)
  \/ QueryQuiet
  \/ QueryReturn
  \/ CleanupUserMemories
  \/ CleanupExpiredMemories
  \/ CleanupSession
  \/ RejectSave
  \/ RejectQuery
  \/ RejectTask
  \/ Return

SpecValidation == Init /\ [][NextValidation]_vars

\* ------------------------------------------------------ delete a memory
\* MemoryService.DeleteMemory: Limit of its ownership query
VerifyLimit == 100

MemoryIDs == {NewUUID(p) : p \in Savers} \cup {"none"}

\* MemoryService.DeleteMemory: the ownership query it issues
VerifyRequest(userID) ==
  [UserID |-> userID, Query |-> "verify memory ownership",
   Limit |-> VerifyLimit, MinScore |-> 0]

\* MemoryService.DeleteMemory: the id is among the results of the query
MemoryFound(results, memoryID) ==
  \E i \in 1..Len(results) : results[i].Metadata.id = memoryID

\* MemoryService.DeleteMemory: the error it returns
DeleteMemoryErr(verified, memoryID, delOk) ==
  IF verified.err # "none" THEN "failed to verify memory ownership"
  ELSE IF ~MemoryFound(verified.results, memoryID)
    THEN "memory not found or does not belong to the specified user"
  ELSE IF ~delOk THEN "failed to delete memory"
  ELSE "none"

\* MemoryHandler.DeleteMemory over MemoryService.DeleteMemory.
\* absent: no entry with the id was stored; owned: an entry with the id is
\* stored under the user id of the request; failed: a call to an adapter
\* reported an error.
DeleteMemory ==
  \E memoryID \in MemoryIDs, userID \in UserIDs, embedOk \in BOOLEAN,
     queryOk \in BOOLEAN, delOk \in BOOLEAN :
    LET q == VerifyRequest(userID)
        filter == FormatFilter(userID)
        topK == TopK(EffectiveLimit(q.Limit))
    IN /\ Quiet
       /\ \E response \in IF embedOk /\ queryOk /\ ParseFilter(filter).ok
                             THEN QueryResponses(vectors, filter, topK)
                             ELSE {<<>>} :
            LET verified == QueryMemoryResult(q, embedOk,
                               queryOk /\ ParseFilter(filter).ok, response)
                err == DeleteMemoryErr(verified, memoryID, delOk)
            IN /\ vectors' = IF err = "none"
                               THEN {v \in vectors : v.id # memoryID}
                               ELSE vectors
               /\ reply' = [op |-> "DeleteMemory", id |-> memoryID,
                            user |-> userID,
                            absent |-> \A v \in vectors : v.id # memoryID,
                            owned |-> \E v \in vectors :
                                        /\ v.id = memoryID
                                        /\ v.metadata.user_id = userID,
                            failed |-> \/ verified.err # "none"
                                       \/ err = "failed to delete memory",
                            status |-> IF err = "none" THEN StatusOK
                                       ELSE StatusInternalServerError,
                            error |-> IF err = "none" THEN ""
                                      ELSE "Failed to delete memory",
                            details |-> err]
       /\ UNCHANGED <<sessions, userSessions, expiry, usExpiry, saves, now, ticks>>

\* a client that saves two memories and deletes memories by id, one request
\* after the other
NextDelete ==
  \/ \E p \in {FirstSaver, SecondSaver} : SaveQuiet(p)
  \/ DeleteMemory
  \/ Return

SpecDelete == Init /\ [][NextDelete]_vars

\* ------------------------------------------------------------ embedding
\* the service as started with any of the configurations
InitEmbedding ==
  /\ InitStores
  /\ embedder \in EmbedderConfigs

\* a client that saves two memories, one after the other
NextEmbedding == \E p \in {FirstSaver, SecondSaver} : SaveQuiet(p)

SpecEmbedding == InitEmbedding /\ [][NextEmbedding]_vars

\* ------------------------------------------- requests that run together
\* MemoryService.GetSession, one remote call per step; `reply` holds the
\* request while it is served: at is the call it makes next, body the
\* record of the first read, local the variable `session` of
\* UpdateSessionActivity.
Serving(id, at, body, local, status) ==
  [op |-> "GetSession", id |-> id, at |-> at, body |-> body, local |-> local,
   status |-> status]

ServingAt(at) == reply # NoReply /\ reply.at = at

\* MemoryService.GetSession line 132: redisClient.GetSession(sessionID)
GetSessionGET ==
  /\ reply = NoReply
  /\ \E sid \in SessionIDs, ok \in BOOLEAN :
       reply' = IF GetSessionErr(sid, ~ok)
                  THEN Serving(sid, "done", NoSession, NoSession, StatusNotFound)
                  ELSE Serving(sid, "reread", sessions[sid], NoSession, StatusOK)
  /\ UNCHANGED <<stores, saves, now, ticks>>

\* UpdateSessionActivity lines 406-412: GetSession, LastActivity = now
ActivityGET ==
  /\ ServingAt("reread")
  /\ \E ok \in BOOLEAN :
       reply' = IF GetSessionErr(reply.id, ~ok)
                  THEN [reply EXCEPT !.at = "done"]
                  ELSE [reply EXCEPT !.at = "setex",
                          !.local = [sessions[reply.id] EXCEPT !.LastActivity = now]]
  /\ UNCHANGED <<stores, saves, now, ticks>>

\* UpdateSessionActivity line 415, SaveSession(session): SETEX
ActivitySETEX ==
  /\ ServingAt("setex")
  /\ \E ok \in BOOLEAN :
       IF ok
         THEN /\ sessions' = SETEX_sessions(reply.local)
              /\ expiry' = SETEX_expiry(reply.local)
              /\ reply' = [reply EXCEPT !.at = "sadd"]
         ELSE /\ UNCHANGED <<sessions, expiry>>
              /\ reply' = [reply EXCEPT !.at = "done"]
  /\ UNCHANGED <<userSessions, usExpiry, vectors, saves, now, ticks>>

\* SaveSession(session): SADD
ActivitySADD ==
  /\ ServingAt("sadd")
  /\ \E ok \in BOOLEAN :
       IF ok
         THEN /\ userSessions' = SADD_userSessions(reply.local)
              /\ reply' = [reply EXCEPT !.at = "expire"]
         ELSE /\ UNCHANGED userSessions
              /\ reply' = [reply EXCEPT !.at = "done"]
  /\ UNCHANGED <<sessions, expiry, usExpiry, vectors, saves, now, ticks>>

\* SaveSession(session): EXPIRE
ActivityEXPIRE ==
  /\ ServingAt("expire")
  /\ \E ok \in BOOLEAN :
       usExpiry' = IF ok THEN EXPIRE_usExpiry(reply.local) ELSE usExpiry
  /\ reply' = [reply EXCEPT !.at = "done"]
  /\ UNCHANGED <<sessions, userSessions, expiry, vectors, saves, now, ticks>>

\* MemoryHandler.GetSession: the response is written
GetSessionReturn ==
  /\ ServingAt("done")
  /\ reply' = NoReply
  /\ UNCHANGED <<stores, saves, now, ticks>>

\* MemoryService.DeleteSession(sessionID, false) of another request, whose
\* only remote call is DEL session:<id>, when the call succeeds (a DEL of
\* a key that is not stored changes nothing)
DeleteSessionDEL ==
  /\ \E sid \in SessionIDs :
       /\ sessions[sid] # NoSession
       /\ sessions' = DEL_sessions(sid)
       /\ expiry' = DEL_expiry(sid)
  /\ UNCHANGED <<userSessions, usExpiry, vectors, saves, now, ticks, reply>>

\* two Saves, a GetSession and deletions of sessions, whose remote calls
\* interleave freely
NextRace ==
  \/ \E p \in {FirstSaver, SecondSaver} : SaveStep(p)
  \/ GetSessionGET
  \/ ActivityGET
  \/ ActivitySETEX
  \/ ActivitySADD
  \/ ActivityEXPIRE
  \/ GetSessionReturn
  \/ DeleteSessionDEL

SpecRace == Init /\ [][NextRace]_vars

\* ------------------------------------------------------- task dispatch
\* ScheduleUserCleanup lines 137-139: default delay of one hour
DefaultDelay == 3600

Delays == {0, 60}

EffectiveDelay(delaySeconds) ==
  IF delaySeconds <= 0 THEN DefaultDelay ELSE delaySeconds

\* the empty Go string in the representation of the identifier that a task
\* of the type carries: an owner id or a session id
Empty(type) == IF type = "cleanup_user_memories" THEN <<>> ELSE ""

\* models.CleanupTask
CleanupTask(type, id, ttl) ==
  [TaskType |-> type, UserID |-> id, Timestamp |-> now, TTL |-> ttl]

\* mutant: the identifier is left out of the payload
Marshal_NoID(task) ==
  [task_type |-> task.TaskType, timestamp |-> task.Timestamp, ttl |-> task.TTL]

\* json.Marshal(task): user_id is `omitempty`
Marshal(task) ==
  IF task.UserID = Empty(task.TaskType)
    THEN [task_type |-> task.TaskType, timestamp |-> task.Timestamp,
          ttl |-> task.TTL]
    ELSE [task_type |-> task.TaskType, user_id |-> task.UserID,
          timestamp |-> task.Timestamp, ttl |-> task.TTL]

\* c.ShouldBindJSON(&task): a field that is absent keeps its zero value
Unmarshal(body) ==
  [TaskType |-> body.task_type,
   UserID |-> IF "user_id" \in DOMAIN body THEN body.user_id
              ELSE Empty(body.task_type),
   Timestamp |-> body.timestamp, TTL |-> body.ttl]

\* QStashClient.ScheduleCleanupTask: the task it builds
ExpireAllTask == CleanupTask("cleanup_expired_memories", "", 0)

\* QStashClient.PublishDelayedMemoryCleanup: the task it builds
OwnerTask(userID, delaySeconds) ==
  CleanupTask("cleanup_user_memories", userID, delaySeconds)

\* QStashClient.PublishSessionCleanup: the task it builds
SessionTask(sessionID, delaySeconds) ==
  CleanupTask("cleanup_session", sessionID, delaySeconds)

\* PublishCleanupTask / ScheduleCleanupTask: the message handed to the task
\* queue.  kind and id are what the caller asked for.
Published(kind, id, task) == [kind |-> kind, id |-> id, body |-> Marshal(task)]

Scheduled(op, id, ok) ==
  [op |-> op, id |-> id,
   status |-> IF ok THEN StatusOK ELSE StatusInternalServerError,
   error |-> IF ok THEN "" ELSE "Failed to schedule"]

\* WebhookHandler.ScheduleCleanup over QStashClient.ScheduleCleanupTask
ScheduleCleanup ==
  \E ok \in BOOLEAN :
    /\ Quiet
    /\ outbox = NoTask
    /\ outbox' = IF ok THEN Published("expire-all", "", ExpireAllTask) ELSE outbox
    /\ reply' = Scheduled("ScheduleCleanup", "", ok)
    /\ UNCHANGED <<stores, pc, req, session, log, lastQuery, embedder, now, ticks>>
    /\ UNCHANGED <<dimensions, sweeps>>

\* WebhookHandler.ScheduleUserCleanup over PublishDelayedMemoryCleanup; the
\* handler has bound the request (user_id is required)
ScheduleUserCleanup ==
  \E u \in UserIDs, delay \in Delays, ok \in BOOLEAN :
    /\ Quiet
    /\ outbox = NoTask
    /\ outbox' = IF ok
                   THEN Published("cleanup-owner", u,
                                  OwnerTask(u, EffectiveDelay(delay)))
                   ELSE outbox
    /\ reply' = Scheduled("ScheduleUserCleanup", u, ok)
    /\ UNCHANGED <<stores, pc, req, session, log, lastQuery, embedder, now, ticks>>
    /\ UNCHANGED <<dimensions, sweeps>>

\* QStashClient.PublishSessionCleanup for the id of a session
PublishSessionCleanup ==
  \E sid \in SessionIDs, delay \in Delays \ {0}, ok \in BOOLEAN :
    /\ Quiet
    /\ outbox = NoTask
    /\ outbox' = IF ok
                   THEN Published("cleanup-session", sid, SessionTask(sid, delay))
                   ELSE outbox
    /\ reply' = Scheduled("PublishSessionCleanup", sid, ok)
    /\ UNCHANGED <<stores, pc, req, session, log, lastQuery, embedder, now, ticks>>
    /\ UNCHANGED <<dimensions, sweeps>>

\* HandleCleanupWebhook lines 34-82: the task is one the switch serves
Accepted(task) ==
  \/ task.TaskType = "cleanup_expired_memories"
  \/ task.TaskType = "cleanup_user_memories" /\ ValidOwnerTask(task.UserID)
  \/ task.TaskType = "cleanup_session" /\ ValidSessionTask(task.UserID)

\* HandleCleanupWebhook on the payload that the task queue delivers
DeliverTask ==
  /\ outbox # NoTask
  /\ LET task == Unmarshal(outbox.body) IN
       \/ /\ task.TaskType = "cleanup_expired_memories"
          /\ CleanupExpiredMemories
       \/ /\ task.TaskType = "cleanup_user_memories"
          /\ CleanupUserMemories
          /\ reply'.id = task.UserID
       \/ /\ task.TaskType = "cleanup_session"
          /\ CleanupSession
          /\ reply'.id = task.UserID
       \/ /\ ~Accepted(task)
          /\ RejectTask
          /\ reply'.op = task.TaskType

\* the task queue has received the response and drops the message
Acknowledge ==
  /\ outbox # NoTask
  /\ reply # NoReply /\ reply.op \in TaskTypes
  /\ reply' = NoReply
  /\ outbox' = NoTask
  /\ UNCHANGED <<stores, pc, req, session, log, lastQuery, embedder, now, ticks>>
  /\ UNCHANGED <<dimensions, sweeps>>

\* a client that saves two memories and schedules cleanup tasks, and a task
\* queue that delivers them (again, until it drops them), one request after
\* the other
NextDispatch ==
  \/ \E p \in {FirstSaver, SecondSaver} : SaveQuiet(p)
  \/ ScheduleCleanup
  \/ ScheduleUserCleanup
  \/ PublishSessionCleanup
  \/ DeliverTask
  \/ Acknowledge
  \/ Return

SpecDispatch == Init /\ [][NextDispatch]_vars

\* --------------------------------------- cleanup requests that overlap
\* the requests that the webhook serves at the same time, each in its own
\* goroutine, on the one VectorClient of the webhook's service
Sweepers == Savers

\* the dimension that the vector index reports in GET /info; 0 when the
\* request fails or the answer carries none
IndexDimensions == {0, 1024}

\* config.GetEmbeddingDimensions
GetEmbeddingDimensions(e) ==
  IF e.provider = "jina" THEN 1024
  ELSE IF e.provider = "openai"
    THEN CASE e.model = "text-embedding-3-small" -> 1536
           [] e.model = "text-embedding-3-large" -> 3072
           [] e.model = "text-embedding-ada-002" -> 1536
           [] OTHER -> 1536
    ELSE 1024

\* a cleanup request at a position, with its local variable `dimensions`
Sweep(at, local) == [at |-> at, dimensions |-> local]

\* HandleCleanupWebhook, task "cleanup_expired_memories": the request
\* arrives and DeleteExpiredMemories calls GetDimensions
SweepArrive(w) ==
  /\ sweeps[w] = Idle
  /\ \A v \in Sweepers : v < w => sweeps[v] # Idle
  /\ sweeps' = [sweeps EXCEPT ![w] = Sweep("check", 0)]
  /\ UNCHANGED <<stores, pc, req, session, log, lastQuery, embedder, outbox,
                 now, ticks, reply, dimensions>>

\* GetDimensions lines 301-304: the read of v.dimensions
SweepCheck(w) ==
  /\ sweeps[w].at = "check"
  /\ sweeps' = [sweeps EXCEPT ![w] =
                  IF dimensions > 0 THEN Sweep("query", dimensions)
                  ELSE Sweep("info", 0)]
  /\ UNCHANGED <<stores, pc, req, session, log, lastQuery, embedder, outbox,
                 now, ticks, reply, dimensions>>

\* GetDimensions lines 306-321: GetStats; DeleteExpiredMemories lines
\* 244-248: an error is replaced by the configured dimensions
SweepInfo(w) ==
  /\ sweeps[w].at = "info"
  /\ \E info \in IndexDimensions :
       sweeps' = [sweeps EXCEPT ![w] =
                    IF info = 0
                      THEN Sweep("query", GetEmbeddingDimensions(embedder))
                      ELSE Sweep("cache", info)]
  /\ UNCHANGED <<stores, pc, req, session, log, lastQuery, embedder, outbox,
                 now, ticks, reply, dimensions>>

\* GetDimensions line 324: the write of v.dimensions
SweepCache(w) ==
  /\ sweeps[w].at = "cache"
  /\ dimensions' = sweeps[w].dimensions
  /\ sweeps' = [sweeps EXCEPT ![w].at = "query"]
  /\ UNCHANGED <<stores, pc, req, session, log, lastQuery, embedder, outbox,
                 now, ticks, reply>>

\* DeleteExpiredMemories lines 250-283: the query and the deletes
SweepQuery(w) ==
  /\ sweeps[w].at = "query"
  /\ \E queryOk \in BOOLEAN :
       IF ~queryOk
         THEN /\ sweeps' = [sweeps EXCEPT ![w].at = "failed"]
              /\ UNCHANGED vectors
         ELSE \E page \in Page(<<>>, SweepPage) :
              \E deleted \in SUBSET {v \in page : IsExpired(v)} :
                /\ vectors' = vectors \ deleted
                /\ sweeps' = [sweeps EXCEPT ![w].at = "done"]
  /\ UNCHANGED <<sessions, userSessions, expiry, usExpiry, pc, req, session,
                 log, lastQuery, embedder, outbox, now, ticks, reply, dimensions>>

SweepStep(w) ==
  \/ SweepArrive(w)
  \/ SweepCheck(w)
  \/ SweepInfo(w)
  \/ SweepCache(w)
  \/ SweepQuery(w)

\* cleanup requests and a Save, whose steps interleave freely
NextCache ==
  \/ \E w \in Sweepers : SweepStep(w)
  \/ SaveStep(FirstSaver)

SpecCache == Init /\ [][NextCache]_vars

\* ------------------------------------------------------------- claims
HasMessage(rec, id) ==
  /\ rec # NoSession
  /\ \E i \in 1..Len(rec.Messages) : rec.Messages[i].ID = id

HasEntry(store, id) == \E e \in store : e.id = id

Issued(p, op) == \E i \in 1..Len(log[p]) : log[p][i].op = op

Succeeded(p, op) == \E i \in 1..Len(log[p]) : log[p][i] = Call(op, TRUE)

\* every call of op by p comes after a successful call of each op in before
After(p, op, before) ==
  \A i \in 1..Len(log[p]) :
    log[p][i].op = op =>
      \A b \in before : \E j \in 1..(i - 1) : log[p][j] = Call(b, TRUE)

\* C1: within one Save the session write (SETEX, SADD, EXPIRE) has completed
\* before the embedding request is issued, the embedding request has
\* completed before the upsert is issued, and no upsert is issued unless the
\* session write and the embedding generation succeeded.
C1_SaveOrder ==
  \A p \in Savers :
    /\ After(p, "EMBED", {"SETEX", "SADD", "EXPIRE"})
    /\ After(p, "UPSERT", {"SETEX", "SADD", "EXPIRE", "EMBED"})

C1_Witness == \E p \in Savers : pc[p] = "done" /\ Issued(p, "UPSERT")

\* C2: when the session write of a Save fails, the Save fails, no embedding
\* is generated, nothing is written to the vector store, and the session
\* record and the owner's session-id set are as they were before the call
\* (stated for a Save that is the only call made so far, so that the state
\* before the call is the initial one).
C2_NoPartialState ==
  \A p \in Savers :
    ( /\ pc[p] = "failed"
      /\ ~Succeeded(p, "EXPIRE")
      /\ \A q \in Savers \ {p} : pc[q] = "idle" )
    => /\ ~Issued(p, "EMBED") /\ ~Issued(p, "UPSERT")
       /\ vectors = {}
       /\ sessions = [s \in SessionIDs |-> NoSession]
       /\ userSessions = [u \in UserIDs |-> {}]

C4_MemoryHasMessage ==
  \A e \in vectors : HasMessage(sessions[e.metadata.session_id], e.id)

\* C4 (amended): every MemoryEntry in the vector store was written by a Save
\* whose session write had succeeded with a record, under the entry's
\* session_id, that contained a Message of the same identifier.
C4_MemoryHadMessage ==
  \A e \in vectors :
    \E p \in Savers :
      /\ NewUUID(p) = e.id
      /\ Succeeded(p, "SETEX") /\ Succeeded(p, "SADD") /\ Succeeded(p, "EXPIRE")
      /\ session[p].SessionID = e.metadata.session_id
      /\ HasMessage(session[p], e.id)

\* an entry whose Message is no longer in the stored record
C4_Witness ==
  \E e \in vectors : ~HasMessage(sessions[e.metadata.session_id], e.id)

\* C5: every MemoryEntry in the vector store was written by a successful
\* Save and has the identifier of the Message that Save appended, the Save's
\* owner, content, session id and role, and a ttl of 2592000 seconds.
C5_EntryOfSave ==
  /\ \A p \in Savers : pc[p] = "done" => HasEntry(vectors, NewUUID(p))
  /\ \A e \in vectors :
       \E p \in Savers :
         /\ pc[p] = "done"
         /\ e.id = Last(session[p].Messages).ID
         /\ e.metadata.user_id = req[p].UserID
         /\ e.metadata.content = req[p].Content
         /\ e.metadata.session_id = req[p].SessionID
         /\ e.metadata.role = req[p].Role
         /\ e.metadata.ttl = 2592000

C5_Witness ==
  \E e \in vectors : e.metadata.role = "assistant" /\ e.metadata.user_id = Bob

\* ---- Query
Answered == lastQuery # NoQuery /\ lastQuery.err = "none"

OwnedBy(store, owner) == {e \in store : e.metadata.user_id = owner}

Positions(seq) == 1..Len(seq)

\* C6 (as claimed): a Query by an owner with minimum score zero and a limit
\* not below the number of the owner's entries returns, for every successful
\* Save of that owner, a result with the saved content.
C6_SavedContentReturned ==
  ( /\ Answered
    /\ lastQuery.req.MinScore = 0
    /\ lastQuery.req.Limit >= Cardinality(OwnedBy(vectors, lastQuery.req.UserID)) )
  => \A p \in Savers :
       (pc[p] = "done" /\ req[p].UserID = lastQuery.req.UserID) =>
         \E i \in Positions(lastQuery.results) :
           lastQuery.results[i].Content = req[p].Content

C8_Limit ==
  Answered =>
    /\ lastQuery.topK = (IF lastQuery.req.Limit <= 0 THEN 10 ELSE lastQuery.req.Limit)
    /\ Len(lastQuery.results) <= lastQuery.topK
    /\ lastQuery.total = Len(lastQuery.results)

\* the limit cuts the answer short
C8_Witness ==
  /\ Answered
  /\ lastQuery.req.Limit = 1
  /\ Cardinality(OwnedBy(vectors, lastQuery.req.UserID)) > 1
  /\ lastQuery.total = 1

\* C9: the results are an order-preserving subsequence of the store's
\* matches: there are strictly increasing positions of the response at which
\* the results are found, and no match is returned twice.
C9_Subsequence ==
  Answered =>
    /\ \E f \in [Positions(lastQuery.results) -> Positions(lastQuery.response)] :
         /\ \A i, j \in Positions(lastQuery.results) : i < j => f[i] < f[j]
         /\ \A i \in Positions(lastQuery.results) :
              /\ lastQuery.results[i].Metadata.id = lastQuery.response[f[i]].ID
              /\ lastQuery.results[i].Score = lastQuery.response[f[i]].Score
    /\ \A i, j \in Positions(lastQuery.results) :
         i # j => lastQuery.results[i].Metadata.id # lastQuery.results[j].Metadata.id

C9_Witness ==
  /\ Answered
  /\ Len(lastQuery.results) = 2
  /\ lastQuery.results[1].Score > lastQuery.results[2].Score

\* C10 (as claimed): every result of a Query is an entry whose stored owner
\* id is the owner the Query was made for.
C10_OwnerOnly ==
  Answered =>
    \A i \in Positions(lastQuery.results) :
      lastQuery.results[i].Metadata.user_id = lastQuery.req.UserID

\* C11: a Query whose embedding request or store query failed reports an
\* error and returns no results (and the store is not queried after a failed
\* embedding); a Query whose calls succeeded and whose matches are none, or
\* are all below the threshold, succeeds with an empty result list and total 0.
C11_QueryErrors ==
  lastQuery # NoQuery =>
    /\ (\E i \in Positions(lastQuery.calls) : ~lastQuery.calls[i].ok) =>
         /\ lastQuery.err # "none"
         /\ lastQuery.results = <<>>
         /\ ~lastQuery.calls[Len(lastQuery.calls)].ok
    /\ ( /\ \A i \in Positions(lastQuery.calls) : lastQuery.calls[i].ok
         /\ \A j \in Positions(lastQuery.response) :
              lastQuery.response[j].Score < lastQuery.minScore ) =>
         /\ lastQuery.err = "none"
         /\ lastQuery.results = <<>>
         /\ lastQuery.total = 0

\* every match of a non-empty answer of the store is below the threshold
C11_Witness ==
  /\ Answered
  /\ lastQuery.response # <<>>
  /\ \A j \in Positions(lastQuery.response) :
       lastQuery.response[j].Score < lastQuery.minScore
  /\ lastQuery.total = 0

\* ---- Sessions
Replied(op) == reply # NoReply /\ reply.op = op

\* C12: GetSession for a session id without a stored record reports a
\* not-found condition that differs from what it reports for a failure of
\* the session store, returns no record, and creates no record.
C12_NotFoundDistinct ==
  Replied("GetSession") =>
    /\ reply.cause = "missing" =>
         /\ reply.status = StatusNotFound
         /\ reply.body = NoSession
         /\ sessions[reply.id] = NoSession
    /\ reply.cause = "upstream" =>
         /\ reply.status # StatusNotFound
         /\ reply.error # "Session not found"

\* C13: a GetSession whose read succeeded returns the record it read with
\* success, whatever the outcome of the refresh (its re-read, its SETEX, SADD
\* and EXPIRE); when the refresh succeeds the stored record's last activity
\* is the current time and its expiration is a full retention window away.
C13_BestEffortRefresh ==
  [][ \A sid \in SessionIDs :
        ( /\ reply = NoReply
          /\ reply' # NoReply
          /\ reply'.op = "GetSession"
          /\ reply'.id = sid
          /\ reply'.readOk
          /\ sessions[sid] # NoSession ) =>
            /\ reply'.status = StatusOK
            /\ reply'.body = sessions[sid]
            /\ (reply'.rereadOk /\ ~SaveSessionErr(reply'.saved)) =>
                 /\ sessions'[sid] = [sessions[sid] EXCEPT !.LastActivity = now]
                 /\ expiry'[sid] = now + SessionTTL
            /\ ~reply'.rereadOk => sessions' = sessions /\ expiry' = expiry
    ]_vars

\* a read answered with the record although the refresh failed half-way,
\* after the record had been idle for a while
C13_Witness ==
  /\ Replied("GetSession")
  /\ reply.status = StatusOK
  /\ reply.rereadOk
  /\ reply.saved = 1
  /\ reply.body.LastActivity < now
  /\ sessions[reply.id].LastActivity = now

\* C14: the cascade flag of DeleteSession is a no-op: with the flag set the
\* request reports the outcome and leaves the session store and the vector
\* store as the same request with the flag unset would (the record is
\* removed when DEL succeeds, and no MemoryEntry is deleted).
C14_CascadeNoOp ==
  [][ \A sid \in SessionIDs :
        ( /\ reply = NoReply
          /\ reply' # NoReply
          /\ reply'.op = "DeleteSession"
          /\ reply'.id = sid
          /\ reply'.deleteMemories ) =>
            LET err == DeleteSessionErr(sid, FALSE, reply'.readOk, reply'.delOk) IN
            /\ reply'.status = IF err = "none" THEN StatusOK
                               ELSE StatusInternalServerError
            /\ sessions' = IF err = "none" THEN DEL_sessions(sid) ELSE sessions
            /\ expiry' = IF err = "none" THEN DEL_expiry(sid) ELSE expiry
            /\ userSessions' = userSessions
            /\ vectors' = vectors
    ]_vars

\* C15: after a successful SetSessionContext(session, m) the stored record,
\* which is what GetSession returns, has a context in which every key of m
\* has the value given in m and every other key that was present before has
\* its previous value, and no other key; its Messages are unchanged.
C15_ContextMerged ==
  (Replied("SetSessionContext") /\ reply.status = StatusOK) =>
    LET old == reply.before
        new == sessions[reply.id]
        m == reply.context
    IN /\ old # NoSession
       /\ new # NoSession
       /\ DOMAIN new.Context = DOMAIN m \cup DOMAIN old.Context
       /\ \A k \in DOMAIN m : new.Context[k] = m[k]
       /\ \A k \in DOMAIN old.Context \ DOMAIN m : new.Context[k] = old.Context[k]
       /\ new.Messages = old.Messages
       /\ new.UserID = old.UserID

\* a key is overwritten while another one is kept
C15_Witness ==
  /\ Replied("SetSessionContext")
  /\ reply.status = StatusOK
  /\ DOMAIN reply.before.Context \ DOMAIN reply.context # {}
  /\ \E k \in DOMAIN reply.context \cap DOMAIN reply.before.Context :
       reply.before.Context[k] # reply.context[k]
  /\ reply.before.Messages # <<>>

\* C16: SetSessionContext on a session id without a stored record fails and
\* leaves the session store as it was: no record is created and no owner's
\* session-id set changes.
C16_ContextOfMissingSession ==
  [][ \A sid \in SessionIDs :
        ( /\ reply = NoReply
          /\ reply' # NoReply
          /\ reply'.op = "SetSessionContext"
          /\ reply'.id = sid
          /\ sessions[sid] = NoSession ) =>
            /\ reply'.status = StatusInternalServerError
            /\ sessions' = sessions
            /\ userSessions' = userSessions
            /\ expiry' = expiry
            /\ usExpiry' = usExpiry
    ]_vars

\* the context of a deleted session is set while the store answers
C16_Witness ==
  /\ Replied("SetSessionContext")
  /\ reply.cause = "missing"
  /\ reply.status = StatusInternalServerError
  /\ sessions[reply.id] = NoSession
  /\ \E u \in UserIDs : reply.id \in userSessions[u]

\* C17: after a successful SaveMemory(owner, session, ...) the owner's
\* session-id set contains the session id, for every owner and session id,
\* including a session id that another owner has used before (no set
\* expires and nothing is deleted while only Saves run).
C17_OwnerListsSession ==
  \A p \in Savers :
    pc[p] = "done" => req[p].SessionID \in userSessions[req[p].UserID]

\* ---- Cleanup
\* C18: after a cleanup-owner task for an owner has reported success, the
\* vector store holds no MemoryEntry of that owner and the session store
\* holds no record whose id is in the owner's session-id set.
C18_OwnerCleaned ==
  (Replied("cleanup_user_memories") /\ reply.status = StatusOK) =>
    /\ OwnedBy(vectors, reply.id) = {}
    /\ \A sid \in userSessions[reply.id] : sessions[sid] = NoSession

\* C19: after a cleanup-owner task for an owner has completed successfully,
\* the owner's session-id set, which GetUserSessions returns, is empty.
C19_OwnerListsNothing ==
  (Replied("cleanup_user_memories") /\ reply.status = StatusOK) =>
    userSessions[reply.id] = {}

\* C20: after an expire-all task has reported success, no MemoryEntry whose
\* timestamp + ttl is earlier than the time of the sweep remains in the
\* vector store, whatever the outcome of the individual delete calls.
C20_ExpiredSwept ==
  (Replied("cleanup_expired_memories") /\ reply.status = StatusOK) =>
    \A v \in vectors : ~(v.metadata.timestamp + v.metadata.ttl < now)

\* C21: every entry that an expire-all task deletes satisfies
\* timestamp + ttl < now at the time of the sweep; an entry written by
\* SaveMemory less than 30 days before the sweep is still stored after it.
C21_OnlyExpiredSwept ==
  [][ ( /\ reply = NoReply
        /\ reply' # NoReply
        /\ reply'.op = "cleanup_expired_memories" ) =>
          /\ \A v \in vectors \ vectors' :
               v.metadata.timestamp + v.metadata.ttl < now
          /\ \A v \in vectors :
               now - v.metadata.timestamp < MemoryTTL => v \in vectors'
          /\ vectors' \subseteq vectors
    ]_vars

\* a sweep at the very second an entry reaches its time to live keeps it
C21_Witness ==
  /\ Replied("cleanup_expired_memories")
  /\ reply.status = StatusOK
  /\ \E v \in vectors : now = v.metadata.timestamp + v.metadata.ttl

\* C22: a cleanup-session task deletes the one named SessionRecord only:
\* every other SessionRecord, every owner's session-id set and every
\* MemoryEntry are unchanged.
C22_OneSessionOnly ==
  [][ \A sid \in SessionIDs :
        ( /\ reply = NoReply
          /\ reply' # NoReply
          /\ reply'.op = "cleanup_session"
          /\ reply'.id = sid ) =>
            /\ \A s \in SessionIDs \ {sid} : sessions'[s] = sessions[s]
            /\ reply'.status = StatusOK => sessions'[sid] = NoSession
            /\ reply'.status # StatusOK => sessions'[sid] = sessions[sid]
            /\ userSessions' = userSessions
            /\ vectors' = vectors
    ]_vars

\* one of two stored sessions has been cleaned up; the other record, the
\* session-id sets and the entries of both are still there
C22_Witness ==
  /\ Replied("cleanup_session")
  /\ reply.status = StatusOK
  /\ \E s \in SessionIDs \ {reply.id} : sessions[s] # NoSession
  /\ \E u \in UserIDs : reply.id \in userSessions[u]
  /\ \E v \in vectors : v.metadata.session_id = reply.id

\* ---- Validation
\* C23: a request that fails validation is rejected without contacting any
\* adapter and without changing any store: no Save whose owner id, session
\* id, content or role is empty, no Query whose owner id or query text is
\* empty and no cleanup-owner or cleanup-session task without identifier is
\* ever served, and the step that answers 400 changes no store, no call log
\* and no query.
C23_RejectedUntouched ==
  [][ /\ \A p \in Savers :
           req'[p] # NoRequest =>
             /\ req'[p].UserID # <<>>
             /\ req'[p].SessionID # ""
             /\ req'[p].Content # ""
             /\ req'[p].Role # ""
      /\ lastQuery' # NoQuery =>
           /\ lastQuery'.req.UserID # <<>>
           /\ lastQuery'.req.Query # ""
      /\ (reply' # NoReply /\ reply'.status # StatusBadRequest) =>
           /\ reply'.op = "cleanup_user_memories" => reply'.id # <<>>
           /\ reply'.op = "cleanup_session" => reply'.id # ""
           /\ reply'.op \in TaskTypes
      /\ (reply' # NoReply /\ reply # reply'
            /\ reply'.status = StatusBadRequest) =>
           /\ UNCHANGED <<sessions, userSessions, vectors, expiry, usExpiry>>
           /\ UNCHANGED <<pc, req, session, log, lastQuery>>
    ]_vars

\* a Save with an empty content string has been answered 400 while both
\* stores hold data
C23_Witness ==
  /\ Replied("SaveMemory")
  /\ reply.status = StatusBadRequest
  /\ reply.input.Content = ""
  /\ vectors # {}
  /\ \E s \in SessionIDs : sessions[s] # NoSession

\* ---- Errors
\* C24: whenever a call to an adapter made by a cleanup task (cleanup-owner,
\* expire-all, cleanup-session) fails, the task reports a failure to its
\* caller.
C24_FailurePropagates ==
  (reply # NoReply /\ reply.op \in TaskTypes
     /\ reply.status # StatusBadRequest /\ reply.failed) =>
    reply.status # StatusOK

\* ---- Transcript
\* C25: SaveMemory creates a fresh SessionRecord only when none is stored
\* for the session id: when two Saves to one session id have succeeded one
\* after the other, the stored transcript holds the Message of the first
\* before the Message of the second.
C25_TranscriptAppended ==
  \A p, q \in Savers :
    ( /\ p < q
      /\ pc[p] = "done"
      /\ pc[q] = "done"
      /\ req[p].SessionID = req[q].SessionID ) =>
        LET m == sessions[req[q].SessionID].Messages IN
        \E i, j \in Positions(m) :
          /\ i < j
          /\ m[i].ID = NewUUID(p)
          /\ m[j].ID = NewUUID(q)

\* C26: the session write of a Save replaces the stored record by the
\* transcript that this Save read plus its own Message, and no other step of
\* a Save changes the record: of two concurrent Saves to one session id the
\* one whose session write comes last determines the whole transcript.
C26_LastWriterWins ==
  [][ \A p \in Savers :
        /\ (pc[p] = "setex" /\ pc'[p] = "sadd") =>
             /\ sessions'[session[p].SessionID] = session[p]
             /\ Last(sessions'[session[p].SessionID].Messages).ID = NewUUID(p)
        /\ (pc[p] # "setex" /\ pc'[p] # pc[p]) => sessions' = sessions
    ]_vars

\* both Saves to one session have succeeded and the transcript holds the
\* Message of the second session writer only
C26_Witness ==
  \E p, q \in Savers :
    /\ p # q
    /\ pc[p] = "done"
    /\ pc[q] = "done"
    /\ req[p].SessionID = req[q].SessionID
    /\ log[p][1].op = "GET" /\ ~log[p][1].ok
    /\ log[q][1].op = "GET" /\ ~log[q][1].ok
    /\ Len(sessions[req[q].SessionID].Messages) = 1
    /\ sessions[req[q].SessionID].Messages[1].ID = NewUUID(q)
    /\ Len(session[p].Messages) = 1

\* ---- Retention
\* C27: every successful write of a SessionRecord (by SaveMemory, by
\* SetSessionContext and by the refresh of GetSession) puts the record's
\* expiration a full 24 hours after the write; the session store drops a
\* record only when 24 hours have passed since its last write, and not
\* before.
C27_RetentionRestarts ==
  [][ \A sid \in SessionIDs :
        /\ (sessions'[sid] # NoSession /\ sessions'[sid] # sessions[sid]) =>
             /\ expiry'[sid] = now + SessionTTL
             /\ sessions'[sid].LastActivity = now
        /\ (sessions[sid] # NoSession /\ now' # now) =>
             /\ sessions'[sid] = NoSession <=>
                  now' >= sessions[sid].LastActivity + SessionTTL
             /\ sessions'[sid] # NoSession => sessions'[sid] = sessions[sid]
    ]_vars

\* a record that was written again an hour after its creation expires 24
\* hours after that write
C27_Witness ==
  \E sid \in SessionIDs :
    /\ sessions[sid] # NoSession
    /\ sessions[sid].LastActivity > sessions[sid].CreatedAt
    /\ now > sessions[sid].LastActivity
    /\ expiry[sid] = sessions[sid].LastActivity + SessionTTL

\* ---- Delete
\* C28: DeleteMemory of an id that is not stored (never stored, or already
\* deleted) leaves the vector store unchanged and, when no adapter call
\* fails, does not report a fatal error.
C28_DeleteAbsent ==
  (Replied("DeleteMemory") /\ reply.absent /\ ~reply.failed) =>
    reply.status # StatusInternalServerError

\* ---- Roles
\* C29: in every reachable state the role of every Message of every
\* SessionRecord and the role metadata of every MemoryEntry is "user" or
\* "assistant".
C29_RolesEnumerated ==
  /\ \A sid \in SessionIDs :
       sessions[sid] # NoSession =>
         \A i \in Positions(sessions[sid].Messages) :
           sessions[sid].Messages[i].Role \in {"user", "assistant"}
  /\ \A e \in vectors : e.metadata.role \in {"user", "assistant"}

\* ---- Embedding
\* C30: every MemoryEntry written by SaveMemory carries an embedding whose
\* length equals the dimensionality that the configured provider declares
\* (GetDimensions).
C30_DeclaredDimensions ==
  \A e \in vectors : e.vector = GetDimensions(embedder)

\* C31: DeleteMemory(memoryID, userID) succeeds whenever an entry with that
\* id owned by userID is stored and no adapter call fails, whatever the
\* score of the entry against the ownership query.
C31_DeleteOwned ==
  (Replied("DeleteMemory") /\ reply.owned /\ ~reply.failed) =>
    /\ reply.status = StatusOK
    /\ ~HasEntry(vectors, reply.id)

\* ---- Requests that run together
\* C32: no remote call of a GetSession changes the Messages or the context
\* of a SessionRecord or removes the record, also while Saves run.
C32_GetSessionReadsOnly ==
  [][(reply # NoReply /\ reply' # reply) =>
       \A sid \in SessionIDs :
         sessions[sid] # NoSession =>
           /\ sessions'[sid] # NoSession
           /\ sessions'[sid].Messages = sessions[sid].Messages
           /\ sessions'[sid].Context = sessions[sid].Context]_vars

\* C33: a SessionRecord that has been deleted is written again only by a
\* Save that did not read it before the deletion: a step that makes an
\* absent record present is the SETEX of a Save whose read found no record.
C33_StaysDeleted ==
  [][\A sid \in SessionIDs :
       (sessions[sid] = NoSession /\ sessions'[sid] # NoSession) =>
         \E p \in Savers :
           /\ pc[p] = "setex" /\ pc'[p] # "setex"
           /\ req[p].SessionID = sid
           /\ ~log[p][1].ok]_vars

\* ---- Owners
\* C34: in every reachable state every Message of a SessionRecord was saved
\* by the owner recorded in that record.
C34_OwnTranscript ==
  \A sid \in SessionIDs :
    sessions[sid] # NoSession =>
      \A i \in Positions(sessions[sid].Messages), p \in Savers :
        sessions[sid].Messages[i].ID = NewUUID(p) =>
          req[p].UserID = sessions[sid].UserID

\* C35: a cleanup-owner task leaves every MemoryEntry and every
\* SessionRecord whose recorded owner differs from the cleaned owner
\* unchanged.
C35_OtherOwnersKept ==
  [][(reply = NoReply /\ reply' # NoReply /\ reply'.op = "cleanup_user_memories") =>
       /\ \A v \in vectors : v.metadata.user_id # reply'.id => v \in vectors'
       /\ \A sid \in SessionIDs :
            (sessions[sid] # NoSession /\ sessions[sid].UserID # reply'.id) =>
              sessions'[sid] = sessions[sid]]_vars

\* C36: whenever no operation is in progress, every SessionRecord present
\* in the session store is listed in the session-id set of the owner
\* recorded in it, also after operations in which a store command failed.
C36_SessionsListed ==
  (\A p \in Savers : ~InProgress(p)) =>
    \A sid \in SessionIDs :
      sessions[sid] # NoSession => sid \in userSessions[sessions[sid].UserID]

\* ---- Task dispatch
\* a published task has been delivered to the cleanup callback and answered
Delivered ==
  /\ outbox # NoTask
  /\ reply # NoReply
  /\ reply.op \notin {"ScheduleCleanup", "ScheduleUserCleanup", "PublishSessionCleanup"}

Operation(kind) ==
  CASE kind = "expire-all" -> "cleanup_expired_memories"
    [] kind = "cleanup-owner" -> "cleanup_user_memories"
    [] kind = "cleanup-session" -> "cleanup_session"

\* C37: every task that the adapter has published, delivered unchanged to
\* the cleanup callback, is accepted and runs the cleanup operation of its
\* kind on the owner or session id given when it was scheduled.
C37_PublishedTaskRuns ==
  Delivered =>
    /\ reply.status # StatusBadRequest
    /\ reply.op = Operation(outbox.kind)
    /\ reply.id = outbox.id

\* a delayed cleanup-session task has been delivered and has removed the
\* record of its session while another record is kept
C37_Witness ==
  /\ Delivered
  /\ outbox.kind = "cleanup-session"
  /\ reply.status = StatusOK
  /\ sessions[outbox.id] = NoSession
  /\ \E sid \in SessionIDs : sessions[sid] # NoSession

\* ---- Result identifiers
\* C38: every result of an answered Query carries in its id field the
\* identifier of a stored MemoryEntry, equal to the id in its metadata.
C38_ResultID ==
  Answered =>
    \A i \in Positions(lastQuery.results) :
      /\ lastQuery.results[i].ID = lastQuery.results[i].Metadata.id
      /\ HasEntry(vectors, lastQuery.results[i].ID)

\* ---- Shared state
\* C39: no request reads or writes an in-process variable that another
\* request running at the same time writes: while a cleanup request is
\* about to write VectorClient.dimensions, no other request is about to
\* read or write it.
C39_NoSharedWrite ==
  \A v, w \in Sweepers :
    (v # w /\ sweeps[v].at = "cache") => sweeps[w].at \notin {"check", "cache"}

============================================================================
